---- MODULE Spec2Model ----
(***************************************************************************)
(* Model of src/fact_checker.py: the annotation-stripping mapper           *)
(* (build_position_map) and the span reconciler / partitioner / renderer   *)
(* (highlight_text).                                                       *)
(*                                                                         *)
(* A text is a sequence of one-character strings.  Offsets are the 0-based *)
(* offsets of the Python code; At and Slice convert to the 1-based         *)
(* sequences of TLA+.                                                      *)
(***************************************************************************)
EXTENDS Integers, Sequences, FiniteSets, TLC

(***************************************************************************)
(* Bounds of the explored inputs.                                          *)
(***************************************************************************)
MaxMapTokens == 5
MaxTextTokens == 3
MaxExcerptTokens == 2
MaxIssues == 3
MaxDocIssues == 2

(***************************************************************************)
(* Python string primitives.                                               *)
(***************************************************************************)
At(s, i) == s[i + 1]

Slice(s, a, b) == SubSeq(s, a + 1, b)

SetMin(S) == CHOOSE m \in S : \A n \in S : m <= n

SetMax(S) == CHOOSE m \in S : \A n \in S : n <= m

IsSpace(c) == c \in {" ", "\n"}

StartsWithAt(s, i, lit) ==
    /\ i + Len(lit) <= Len(s)
    /\ Slice(s, i, i + Len(lit)) = lit

\* str.find(needle): the lowest offset at which needle occurs, -1 if none.
FindLast(hay, needle) ==
    LET cands == {p \in 0..(Len(hay) - Len(needle)) : Slice(hay, p, p + Len(needle)) = needle}
    IN  IF cands = {} THEN -1 ELSE SetMax(cands)

Find(hay, needle) ==
    LET cands == {p \in 0..(Len(hay) - Len(needle)) : Slice(hay, p, p + Len(needle)) = needle}
    IN  IF cands = {} THEN -1 ELSE SetMin(cands)

RECURSIVE LStrip(_)
LStrip(s) == IF s # <<>> /\ IsSpace(Head(s)) THEN LStrip(Tail(s)) ELSE s

RECURSIVE RStrip(_)
RStrip(s) ==
    IF s # <<>> /\ IsSpace(s[Len(s)]) THEN RStrip(SubSeq(s, 1, Len(s) - 1)) ELSE s

\* str.strip()
Strip(s) == RStrip(LStrip(s))

\* str(n) for n >= 0, as a sequence of digit characters.
Digit(d) == <<"0", "1", "2", "3", "4", "5", "6", "7", "8", "9">>[d + 1]

RECURSIVE Str(_)
Str(n) == IF n < 10 THEN <<Digit(n)>> ELSE Str(n \div 10) \o <<Digit(n % 10)>>

(***************************************************************************)
(* re.match(r'\s*\(https?://[^\)]+\)', text[i:]): the length of the match, *)
(* -1 when there is none.  Every quantifier of the pattern is followed by  *)
(* a character outside its class, so the greedy choice is the only one     *)
(* that can succeed and backtracking never finds another match.            *)
(***************************************************************************)
RECURSIVE SkipSpaces(_, _)
SkipSpaces(text, i) ==
    IF i < Len(text) /\ IsSpace(At(text, i)) THEN SkipSpaces(text, i + 1) ELSE i

RECURSIVE SkipNotClose(_, _)
SkipNotClose(text, i) ==
    IF i < Len(text) /\ At(text, i) # ")" THEN SkipNotClose(text, i + 1) ELSE i

UrlMatchLen(text, i) ==
    LET j == SkipSpaces(text, i)
        k == IF StartsWithAt(text, j, <<"(", "h", "t", "t", "p", "s", ":", "/", "/">>)
             THEN j + 9
             ELSE IF StartsWithAt(text, j, <<"(", "h", "t", "t", "p", ":", "/", "/">>)
             THEN j + 8
             ELSE -1
        e == IF k = -1 THEN -1 ELSE SkipNotClose(text, k)
    IN  IF k # -1 /\ e > k /\ e < Len(text) THEN e + 1 - i ELSE -1

(***************************************************************************)
(* build_position_map: the loop of lines 137-145 from cursor i on.         *)
(***************************************************************************)
RECURSIVE BuildFrom(_, _, _, _)
BuildFrom(text, i, stripped, position_map) ==
    IF i < Len(text)
    THEN LET url_match == UrlMatchLen(text, i)
         IN  IF url_match # -1
             THEN BuildFrom(text, i + url_match, stripped, position_map)
             ELSE BuildFrom(text, i + 1, Append(stripped, At(text, i)),
                            Append(position_map, i))
    ELSE <<stripped, position_map>>

\* A cursor that records the offset after the increment.
RECURSIVE BuildFromLate(_, _, _, _)
BuildFromLate(text, i, stripped, position_map) ==
    IF i < Len(text)
    THEN LET url_match == UrlMatchLen(text, i)
         IN  IF url_match # -1
             THEN BuildFromLate(text, i + url_match, stripped, position_map)
             ELSE BuildFromLate(text, i + 1, Append(stripped, At(text, i)),
                                Append(position_map, i + 1))
    ELSE <<stripped, position_map>>

build_position_map_late(text) == BuildFromLate(text, 0, <<>>, <<>>)

build_position_map(text) == BuildFrom(text, 0, <<>>, <<>>)

(***************************************************************************)
(* highlight_text: issue records are Python dicts, i.e. functions from     *)
(* keys to values; dict.get(key, default) is Get.                          *)
(***************************************************************************)
Get(d, key, default) == IF key \in DOMAIN d THEN d[key] ELSE default

Kinds == {"misleading", "questionable", "incomplete"}

colors ==
    ("misleading" :> "#ffcccc" @@ "questionable" :> "#fff4cc" @@ "incomplete" :> "#cce5ff")

border_colors ==
    ("misleading" :> "#ff0000" @@ "questionable" :> "#ffa500" @@ "incomplete" :> "#0066cc")

\* str.title() on the issue types.
Title(issue_type) ==
    Get(("misleading" :> "Misleading" @@ "questionable" :> "Questionable"
         @@ "incomplete" :> "Incomplete"), issue_type, issue_type)

\* Lines 159-164: the visibility test of one issue type.
Hidden(issue_type, show_m, show_i, show_q) ==
    \/ issue_type = "misleading" /\ ~show_m
    \/ issue_type = "incomplete" /\ ~show_i
    \/ issue_type = "questionable" /\ ~show_q

\* Lines 156-168: the filter loop from list offset idx on.
RECURSIVE FilterFrom(_, _, _, _, _, _)
FilterFrom(issue_list, idx, show_m, show_i, show_q, filtered_issues) ==
    IF idx < Len(issue_list)
    THEN LET issue == At(issue_list, idx)
             issue_type == Get(issue, "type", "questionable")
         IN  IF Hidden(issue_type, show_m, show_i, show_q)
             THEN FilterFrom(issue_list, idx + 1, show_m, show_i, show_q, filtered_issues)
             ELSE FilterFrom(issue_list, idx + 1, show_m, show_i, show_q,
                             Append(filtered_issues,
                                    ("_original_index" :> idx) @@ issue))
    ELSE filtered_issues

\* The filter loop numbering the issues it keeps by their place in the
\* filtered list.
RECURSIVE FilterFromRenumbered(_, _, _, _, _, _)
FilterFromRenumbered(issue_list, idx, show_m, show_i, show_q, filtered_issues) ==
    IF idx < Len(issue_list)
    THEN LET issue == At(issue_list, idx)
             issue_type == Get(issue, "type", "questionable")
         IN  IF Hidden(issue_type, show_m, show_i, show_q)
             THEN FilterFromRenumbered(issue_list, idx + 1, show_m, show_i, show_q,
                                       filtered_issues)
             ELSE FilterFromRenumbered(issue_list, idx + 1, show_m, show_i, show_q,
                                       Append(filtered_issues,
                                              ("_original_index" :> Len(filtered_issues))
                                              @@ issue))
    ELSE filtered_issues

FilterIssuesRenumbered(issue_list, show_m, show_i, show_q) ==
    FilterFromRenumbered(issue_list, 0, show_m, show_i, show_q, <<>>)

FilterIssues(issue_list, show_m, show_i, show_q) ==
    FilterFrom(issue_list, 0, show_m, show_i, show_q, <<>>)

\* The fallback end taken as far from the start as the stripped span is long,
\* without the map.
MappedSpanUnmappedEnd(pos_map, pos, end_pos_stripped) ==
    <<At(pos_map, pos),
      At(pos_map, pos) + (end_pos_stripped - pos)>>

\* The fallback end without the + 1 that makes it exclusive.
MappedSpanEndInclusive(pos_map, pos, end_pos_stripped) ==
    IF end_pos_stripped > 0 /\ end_pos_stripped <= Len(pos_map)
    THEN <<At(pos_map, pos), At(pos_map, end_pos_stripped - 1)>>
    ELSE <<>>

\* Lines 214-218: start_pos and end_pos of a match in the stripped text, <<>>
\* when end_pos stays None.
MappedSpan(pos_map, pos, end_pos_stripped) ==
    IF end_pos_stripped > 0 /\ end_pos_stripped <= Len(pos_map)
    THEN <<At(pos_map, pos), At(pos_map, end_pos_stripped - 1) + 1>>
    ELSE <<>>

\* min(a, b) of line 215.
Min(a, b) == IF a < b THEN a ELSE b

\* Lines 213-218, given the offset find() returned in the stripped text.
StrippedSpan(pos_map, excerpt_stripped, pos) ==
    IF pos # -1 /\ Len(excerpt_stripped) > 0
    THEN MappedSpan(pos_map, pos,
                    Min(pos + Len(excerpt_stripped), Len(pos_map)))
    ELSE <<>>

\* Lines 210-218, given the stripped excerpt.
FallbackSpan(original_stripped, pos_map, excerpt_stripped) ==
    StrippedSpan(pos_map, excerpt_stripped, Find(original_stripped, excerpt_stripped))

\* Lines 205-218, given the offset find() returned in the original text.
SpanAt(original_stripped, pos_map, excerpt, pos) ==
    IF pos # -1
    THEN <<pos, pos + Len(excerpt)>>
    ELSE FallbackSpan(original_stripped, pos_map, build_position_map(excerpt)[1])

(***************************************************************************)
(* Lines 200-218: the span of one stripped, non-empty excerpt, <<>> when   *)
(* start_pos or end_pos stays None, else <<start_pos, end_pos>>.           *)
(***************************************************************************)
LocateSpan(text, original_stripped, pos_map, excerpt) ==
    SpanAt(original_stripped, pos_map, excerpt, Find(text, excerpt))

\* The default of line 196, 'No explanation'.
NoExplanation ==
    <<"N", "o", " ", "e", "x", "p", "l", "a", "n", "a", "t", "i", "o", "n">>

\* A range whose type defaults to 'misleading'.
RangeOfDefaultMisleading(issue, span) ==
    IF span = <<>>
    THEN <<>>
    ELSE << [start |-> span[1],
             end |-> span[2],
             issue_index |-> Get(issue, "_original_index", 0),
             issue_type |-> Get(issue, "type", "misleading"),
             explanation |-> Get(issue, "issue", NoExplanation),
             sources |-> Get(issue, "sources", <<>>)] >>

\* Lines 195-198 and 220-228: the range appended for a span, none for <<>>.
RangeOf(issue, span) ==
    IF span = <<>>
    THEN <<>>
    ELSE << [start |-> span[1],
             end |-> span[2],
             issue_index |-> Get(issue, "_original_index", 0),
             issue_type |-> Get(issue, "type", "questionable"),
             explanation |-> Get(issue, "issue", NoExplanation),
             sources |-> Get(issue, "sources", <<>>)] >>

\* The loop body without the test of line 192 for an empty excerpt.
LocateExcerptUnguarded(text, original_stripped, pos_map, issue, excerpt) ==
    RangeOf(issue, LocateSpan(text, original_stripped, pos_map, excerpt))

\* Lines 192-228, given the stripped excerpt of the issue.
LocateExcerpt(text, original_stripped, pos_map, issue, excerpt) ==
    IF excerpt = <<>>
    THEN <<>>
    ELSE RangeOf(issue, LocateSpan(text, original_stripped, pos_map, excerpt))

\* Lines 190-228: the ranges (none or one) that one filtered issue appends.
LocateIssue(text, original_stripped, pos_map, issue) ==
    LocateExcerpt(text, original_stripped, pos_map, issue,
                  Strip(Get(issue, "excerpt", <<>>)))

RECURSIVE LocateAll(_, _, _, _)
LocateAll(text, original_stripped, pos_map, filtered_issues) ==
    IF filtered_issues = <<>>
    THEN <<>>
    ELSE LocateIssue(text, original_stripped, pos_map, Head(filtered_issues))
         \o LocateAll(text, original_stripped, pos_map, Tail(filtered_issues))

(***************************************************************************)
(* Line 230: list.sort(key=start), a stable sort.                          *)
(***************************************************************************)
RECURSIVE InsertByStart(_, _)
InsertByStart(sorted, hr) ==
    IF sorted # <<>> /\ sorted[Len(sorted)].start > hr.start
    THEN Append(InsertByStart(SubSeq(sorted, 1, Len(sorted) - 1), hr), sorted[Len(sorted)])
    ELSE Append(sorted, hr)

RECURSIVE SortByStartFrom(_, _)
SortByStartFrom(ranges, sorted) ==
    IF ranges = <<>> THEN sorted
    ELSE SortByStartFrom(Tail(ranges), InsertByStart(sorted, Head(ranges)))

\* The ranges left in the order the issues were located.
SortByStartSkipped(ranges) == ranges

SortByStart(ranges) == SortByStartFrom(ranges, <<>>)

\* Ranges taken to cover their end offset too.
PositionIssuesInclusive(ranges, pos) ==
    SelectSeq(ranges, LAMBDA hr : hr.start <= pos /\ pos <= hr.end)

\* Lines 233-238 and 248: position_issues.get(pos, []).
PositionIssues(ranges, pos) ==
    SelectSeq(ranges, LAMBDA hr : hr.start <= pos /\ pos < hr.end)

\* sorted(set(...)) of a set of offsets.
RECURSIVE SortedSeq(_)
SortedSeq(S) ==
    IF S = {} THEN <<>> ELSE LET m == SetMin(S) IN <<m>> \o SortedSeq(S \ {m})

\* The boundaries without the two ends of the text.
PositionsWithoutEnds(text, ranges) ==
    SortedSeq({ranges[k].start : k \in DOMAIN ranges}
              \cup {ranges[k].end : k \in DOMAIN ranges})

\* The boundaries without the ends of the ranges.
PositionsWithoutRangeEnds(text, ranges) ==
    SortedSeq({0, Len(text)} \cup {ranges[k].start : k \in DOMAIN ranges})

\* Lines 240-242.
Positions(text, ranges) ==
    SortedSeq({0, Len(text)} \cup {ranges[k].start : k \in DOMAIN ranges}
                             \cup {ranges[k].end : k \in DOMAIN ranges})

\* Lines 244-255, over the sorted boundaries.
Segments(text, ranges, boundaries) ==
    [i \in 1..(Len(boundaries) - 1) |->
        [start |-> boundaries[i],
         end |-> boundaries[i + 1],
         text |-> Slice(text, boundaries[i], boundaries[i + 1]),
         issues |-> PositionIssues(ranges, boundaries[i])]]

(***************************************************************************)
(* Lines 257-308: the HTML.  The returned string is modelled as a sequence *)
(* of elements: [ch |-> c] for a character emitted as plain text, and one  *)
(* record per <mark> element with its attributes and its text.             *)
(***************************************************************************)
PlainHtml(text) == [i \in 1..Len(text) |-> [ch |-> text[i]]]

\* str.replace('"', '&quot;').replace("'", '&#39;'), character by character.
EscapeChar(c) ==
    IF c = "\"" THEN <<"&", "q", "u", "o", "t", ";">>
    ELSE IF c = "'" THEN <<"&", "#", "3", "9", ";">>
    ELSE <<c>>

RECURSIVE EscapeQuotes(_)
EscapeQuotes(s) == IF s = <<>> THEN <<>> ELSE EscapeChar(Head(s)) \o EscapeQuotes(Tail(s))

\* Lines 272-284: the tooltip lines of the issue at list offset idx.
TooltipOf(issues_data, idx) ==
    LET issue_data == At(issues_data, idx)
    IN  << [line |-> "header",
            number |-> Str(issue_data.issue_index + 1),
            text |-> <<>>,
            type |-> Title(issue_data.issue_type)],
           [line |-> "explanation", number |-> <<>>,
            text |-> EscapeQuotes(issue_data.explanation), type |-> ""] >>
        \o (IF issue_data.sources # <<>>
            THEN << [line |-> "sources", number |-> <<>>, text |-> <<>>, type |-> ""] >>
                 \o [k \in 1..Len(issue_data.sources) |->
                        [line |-> "source", number |-> Str(k),
                         text |-> EscapeQuotes(issue_data.sources[k]), type |-> ""]]
            ELSE <<>>)
        \o (IF idx < Len(issues_data) - 1
            THEN << [line |-> "separator", number |-> <<>>, text |-> <<>>, type |-> ""] >>
            ELSE <<>>)

RECURSIVE TooltipFrom(_, _)
TooltipFrom(issues_data, idx) ==
    IF idx < Len(issues_data)
    THEN TooltipOf(issues_data, idx) \o TooltipFrom(issues_data, idx + 1)
    ELSE <<>>

\* The accent taken from the last covering issue.
BorderStyleLast(issues_data) ==
    IF Len(issues_data) > 1
    THEN Get(border_colors, issues_data[Len(issues_data)].issue_type, "#333")
    ELSE "transparent"

\* Lines 289-293; the value is the color that follows "2px solid ".
BorderStyle(issues_data) ==
    IF Len(issues_data) > 1
    THEN LET border_colors_list ==
                 [k \in 1..(Len(issues_data) - 1) |->
                     Get(border_colors, issues_data[k + 1].issue_type, "#333")]
         IN  IF border_colors_list # <<>> THEN border_colors_list[1] ELSE "transparent"
    ELSE "transparent"

\* Line 296.
BadgeText(issues_data) ==
    IF Len(issues_data) = 1
    THEN Str(issues_data[1].issue_index + 1)
    ELSE Str(Len(issues_data))

\* Line 297.
BadgeType(issues_data) == IF Len(issues_data) = 1 THEN "single" ELSE "multiple"

\* Lines 264-306: the <mark> element of a segment with a non-empty issue list.
Mark(segment) ==
    LET issues_data == segment.issues
        primary == issues_data[1]
    IN  [issue_ids |-> [k \in 1..Len(issues_data) |-> Str(issues_data[k].issue_index)],
         tooltip |-> TooltipFrom(issues_data, 0),
         badge_text |-> BadgeText(issues_data),
         badge_type |-> BadgeType(issues_data),
         bg_color |-> Get(colors, primary.issue_type, "#fff4cc"),
         border_style |-> BorderStyle(issues_data),
         text |-> segment.text]

\* Lines 258-308: ''.join(html_parts).
RECURSIVE HtmlFrom(_, _)
HtmlFrom(segs, i) ==
    IF i > Len(segs) THEN <<>>
    ELSE (IF segs[i].issues = <<>> THEN PlainHtml(segs[i].text) ELSE <<Mark(segs[i])>>)
         \o HtmlFrom(segs, i + 1)

(***************************************************************************)
(* highlight_text, with the locals that are live at its return.            *)
(***************************************************************************)
\* The early return giving the logical text.
EarlyReturnStripped(text, filtered) ==
    [returned |-> "early", html |-> PlainHtml(build_position_map(text)[1]),
     filtered_issues |-> filtered,
     highlight_ranges |-> <<>>, positions |-> <<>>, segments |-> <<>>]

EarlyReturn(text, filtered) ==
    [returned |-> "early", html |-> PlainHtml(text), filtered_issues |-> filtered,
     highlight_ranges |-> <<>>, positions |-> <<>>, segments |-> <<>>]

\* Lines 244-308, given the boundaries.
HighlightPositions(text, filtered, ranges, boundaries) ==
    [returned |-> "full",
     html |-> HtmlFrom(Segments(text, ranges, boundaries), 1),
     filtered_issues |-> filtered,
     highlight_ranges |-> ranges,
     positions |-> boundaries,
     segments |-> Segments(text, ranges, boundaries)]

\* Lines 233-308, given the sorted ranges.
HighlightRanges(text, filtered, ranges) ==
    HighlightPositions(text, filtered, ranges, Positions(text, ranges))

\* Lines 190-308, given what build_position_map(text) returned.
HighlightMapped(text, filtered, built) ==
    HighlightRanges(text, filtered,
                    SortByStart(LocateAll(text, built[1], built[2], filtered)))

\* Lines 170-308, given the filtered issues.
HighlightFiltered(text, filtered) ==
    IF filtered = <<>>
    THEN EarlyReturn(text, filtered)
    ELSE HighlightMapped(text, filtered, build_position_map(text))

highlight_text(text, issue_list, show_m, show_i, show_q) ==
    IF issue_list = <<>>
    THEN EarlyReturn(text, <<>>)
    ELSE HighlightFiltered(text, FilterIssues(issue_list, show_m, show_i, show_q))

(***************************************************************************)
(* The explored inputs.                                                    *)
(***************************************************************************)
Https == <<"h", "t", "t", "p", "s", ":", "/", "/">>

Ann == <<"(", "h", "t", "t", "p", ":", "/", "/", "x", ")">>

AnnText == <<"a">> \o Ann \o <<"b", " ", "a", "b", " ", "a", "b">>

RECURSIVE TextsOver(_, _)
TextsOver(tokens, n) ==
    IF n = 0 THEN {<<>>}
    ELSE LET shorter == TextsOver(tokens, n - 1)
         IN  shorter \cup {t \o k : t \in shorter, k \in tokens}

MapperTexts ==
    TextsOver({<<"a">>, <<" ">>, <<"(">>, <<")">>, Https, Ann}, MaxMapTokens)

HlTokens == {<<"a">>, <<"b">>, <<" ">>, Ann}

SingleTexts == TextsOver(HlTokens, MaxTextTokens)

SingleExcerpts == TextsOver(HlTokens, MaxExcerptTokens)

PairTexts == TextsOver({<<"a">>, <<"b">>}, MaxTextTokens)

PairExcerpts == {<<"a">>, <<"b">>, <<"a", "b">>, <<"b", "a">>}

StackTexts == {<<"a">>, <<"a", "b">>, <<"b", "a">>, <<"a", "b", "a">>}

StackExcerpts == {<<"a">>, <<"a", "b">>}

ParisText ==
    <<"P", "a", "r", "i", "s", " ", "i", "s", " ", "t", "h", "e", " ", "c", "a", "p",
      "i", "t", "a", "l", " ", "(", "h", "t", "t", "p", "s", ":", "/", "/", "e", "x",
      "a", "m", "p", "l", "e", ".", "c", "o", "m", "/", "1", ")", ".">>

ParisExcerpt ==
    <<"P", "a", "r", "i", "s", " ", "i", "s", " ", "t", "h", "e", " ", "c", "a", "p",
      "i", "t", "a", "l", ".">>

Text20 ==
    <<"a", "b", "c", "d", "e", "f", "g", "h", "i", "j", "k", "l", "m", "n", "o", "p",
      "q", "r", "s", "t">>

NotPresent ==
    <<"n", "o", "t", " ", "p", "r", "e", "s", "e", "n", "t", " ", "a", "n", "y", "w",
      "h", "e", "r", "e">>

NamedTexts == {ParisText, Text20, AnnText}

NamedExcerpts ==
    {ParisExcerpt, NotPresent, Slice(Text20, 0, 10), Slice(Text20, 5, 15),
     <<"a", "b">>, <<"b", " ", "a">>}

\* An issue record as the analyzer's JSON gives it.
MkIssue(excerpt, kind) ==
    ("excerpt" :> excerpt @@ "issue" :> <<"e", "'">> @@ "type" :> kind
     @@ "sources" :> << <<"u">> >>)

IssuesOver(excerpts) == {MkIssue(e, k) : e \in excerpts, k \in Kinds}

\* A dict with only the keys in keys.
Restrict(d, keys) == [k \in keys |-> d[k]]

IssueKeys == {"excerpt", "issue", "type", "sources"}

\* Issue records with any of their fields missing.
PartialIssues ==
    {Restrict(MkIssue(e, k), keys) :
        e \in {<<"a">>, <<"b">>}, k \in {"misleading", "incomplete"},
        keys \in SUBSET IssueKeys}

(***************************************************************************)
(* State: the arguments of a call, and what the call returned.             *)
(***************************************************************************)
VARIABLES
    pc,                 \* "start", "mapped" or "highlighted"
    original_text,
    issues,
    show_misleading,
    show_incomplete,
    show_questionable,
    stripped,           \* build_position_map(original_text)[0]
    position_map,       \* build_position_map(original_text)[1]
    returned,           \* "" before highlight_text returns, then "early" or "full"
    filtered_issues,
    highlight_ranges,
    positions,
    segments,
    html                \* the value highlight_text returned

\* The Streamlit script: the session state, the locals of a run of the submit
\* handler, and what the last run put on the page.
VARIABLES
    app_pc,             \* "idle": no run in progress; "streaming": in the loop of line 411
    api_key,            \* whether OPENROUTER_API_KEY is set
    main_text_input,    \* st.session_state.main_text_input, the text area
    fact_check_results, \* st.session_state.fact_check_results: <<>> for None, else <<dict>>
    current_text,       \* the local of line 315
    response,           \* the chunks the stream has still to deliver
    result_text,        \* the local of line 406, a sequence of chunks
    messages,           \* the st.error / st.success boxes of the last run
    display,            \* what lines 480-792 rendered in the last run
    clicked,            \* history: the text area and the response of the last click
    stored_click        \* history: clicked, as it was at the last store of line 464

app_vars ==
    <<app_pc, api_key, main_text_input, fact_check_results, current_text, response,
      result_text, messages, display, clicked, stored_click>>

vars ==
    <<pc, original_text, issues, show_misleading, show_incomplete, show_questionable,
      stripped, position_map, returned, filtered_issues, highlight_ranges, positions,
      segments, html, app_vars>>

args == <<original_text, issues, show_misleading, show_incomplete, show_questionable>>

\* Nothing rendered: fact_check_results is None.
NoDisplay == [panel |-> "none", text |-> <<>>, issues |-> <<>>, html |-> <<>>]

\* Lines 25-29: the session state of a new session, after its first run.
NewSession ==
    /\ app_pc = "idle"
    /\ main_text_input = <<>>
    /\ fact_check_results = <<>>
    /\ current_text = <<>>
    /\ response = <<>>
    /\ result_text = <<>>
    /\ messages = {}
    /\ display = NoDisplay
    /\ clicked = [text |-> <<>>, sent |-> <<>>]
    /\ stored_click = [text |-> <<>>, sent |-> <<>>]

NothingReturned ==
    /\ NewSession
    /\ api_key = TRUE
    /\ pc = "start"
    /\ stripped = <<>>
    /\ position_map = <<>>
    /\ returned = ""
    /\ filtered_issues = <<>>
    /\ highlight_ranges = <<>>
    /\ positions = <<>>
    /\ segments = <<>>
    /\ html = <<>>

AllShown ==
    /\ show_misleading = TRUE
    /\ show_incomplete = TRUE
    /\ show_questionable = TRUE

AnyShown ==
    /\ show_misleading \in BOOLEAN
    /\ show_incomplete \in BOOLEAN
    /\ show_questionable \in BOOLEAN

\* Texts with every arrangement of annotation fragments, no issues.
InitMapper ==
    /\ original_text \in MapperTexts
    /\ issues = <<>>
    /\ AllShown

\* One issue, with whitespace and annotations in text and excerpt.
InitSingle ==
    /\ original_text \in SingleTexts
    /\ issues \in [1..1 -> {MkIssue(e, "questionable") : e \in SingleExcerpts}]
    /\ AllShown

\* Two issues of any kinds under any visibility flags.
InitPair ==
    /\ original_text \in PairTexts
    /\ issues \in [1..2 -> IssuesOver(PairExcerpts)]
    /\ AnyShown

\* MaxIssues issues stacked on the start of the text.
InitStack ==
    /\ original_text \in StackTexts
    /\ issues \in [1..MaxIssues -> IssuesOver(StackExcerpts)]
    /\ AllShown

\* The texts and excerpts the specification names.
InitNamed ==
    /\ original_text \in NamedTexts
    /\ issues \in [1..1 -> IssuesOver(NamedExcerpts)] \cup [1..2 -> IssuesOver(NamedExcerpts)]
    /\ AnyShown

Init ==
    /\ NothingReturned
    /\ \/ InitMapper
       \/ InitSingle
       \/ InitPair
       \/ InitStack
       \/ InitNamed

\* A call of build_position_map(original_text).
BuildPositionMapCall ==
    /\ pc = "start"
    /\ pc' = "mapped"
    /\ stripped' = build_position_map(original_text)[1]
    /\ position_map' = build_position_map(original_text)[2]
    /\ UNCHANGED <<args, returned, filtered_issues, highlight_ranges, positions,
                   segments, html, app_vars>>

\* A call of highlight_text(original_text, issues, show_misleading, ...).
HighlightTextCall ==
    /\ pc = "start"
    /\ pc' = "highlighted"
    /\ \E out \in {highlight_text(original_text, issues, show_misleading,
                                  show_incomplete, show_questionable)} :
           /\ returned' = out.returned
           /\ filtered_issues' = out.filtered_issues
           /\ highlight_ranges' = out.highlight_ranges
           /\ positions' = out.positions
           /\ segments' = out.segments
           /\ html' = out.html
    /\ UNCHANGED <<args, stripped, position_map, app_vars>>

Next ==
    \/ BuildPositionMapCall
    \/ HighlightTextCall

Spec == Init /\ [][Next]_vars

\* Calls on batches of two issue records with missing fields.
InitFields ==
    /\ NothingReturned
    /\ original_text = <<"a", "b">>
    /\ issues \in [1..2 -> PartialIssues]
    /\ show_misleading = TRUE
    /\ show_incomplete \in BOOLEAN
    /\ show_questionable \in BOOLEAN

SpecFields == InitFields /\ [][Next]_vars

(***************************************************************************)
(* The Streamlit script.  The analyzer's response is a sequence of chunks, *)
(* each one token of the JSON text: a bracket, a brace, a comma, the key   *)
(* "issues" with its colon, a whitespace, or one issue object.             *)
(***************************************************************************)
IssueTokens == {"A", "B"}

\* The dict json.loads gives for an issue object of the response.
IssueOf(token) ==
    IF token = "A" THEN MkIssue(<<"a">>, "misleading") ELSE MkIssue(<<"b">>, "incomplete")

\* Whether the tokens are a JSON array of issue objects.
IsIssueList(t) ==
    /\ Len(t) >= 2
    /\ t[1] = "["
    /\ t[Len(t)] = "]"
    /\ Len(t) = 2 \/ Len(t) % 2 = 1
    /\ \A i \in 2..(Len(t) - 1) :
          IF i % 2 = 0 THEN t[i] \in IssueTokens ELSE t[i] = ","

\* The elements of a JSON array of issue objects.
ItemsOf(t) == [k \in 1..((Len(t) - 1) \div 2) |-> IssueOf(t[2 * k])]

\* Whether the tokens are a JSON object: empty, or with the key "issues".
IsIssueDict(t) ==
    /\ Len(t) >= 2
    /\ t[1] = "{"
    /\ t[Len(t)] = "}"
    /\ Len(t) = 2 \/ (Len(t) > 3 /\ t[2] = "\"issues\":"
                      /\ IsIssueList(SubSeq(t, 3, Len(t) - 1)))

\* Lines 453-459 on text without surrounding whitespace: ok is FALSE where
\* json.loads raises JSONDecodeError; issues is result_json.get('issues', [])
\* of a dict and result_json itself otherwise.
LoadsStripped(t) ==
    IF IsIssueList(t) THEN [ok |-> TRUE, issues |-> ItemsOf(t)]
    ELSE IF IsIssueDict(t)
    THEN [ok |-> TRUE,
          issues |-> IF Len(t) = 2 THEN <<>> ELSE ItemsOf(SubSeq(t, 3, Len(t) - 1))]
    ELSE [ok |-> FALSE, issues |-> <<>>]

\* A parser that closes the brackets a truncated text leaves open.
json_loads_lenient(text) ==
    LET t == Strip(text)
        closings == << <<>>, <<"]">>, <<"}">>, <<"]", "}">> >>
        fits == {k \in DOMAIN closings : LoadsStripped(t \o closings[k]).ok}
    IN  IF fits = {} THEN [ok |-> FALSE, issues |-> <<>>]
        ELSE LoadsStripped(t \o closings[SetMin(fits)])

\* Line 453: json.loads(result_text).
json_loads(text) == LoadsStripped(Strip(text))

\* Line 484 reads the text of the stored dict; live is the text area.
DisplayTextLive(results, live) == live

\* Line 484: current_text = results['current_text'].
DisplayText(results, live) == results.current_text

\* Lines 480-520 and 791-792: the results panel with the value of
\* highlight_text, or the 'No issues found' message, or nothing.
Display(session_results, live) ==
    IF session_results = <<>>
    THEN NoDisplay
    ELSE IF session_results[1].issues # <<>>
    THEN [panel |-> "results",
          text |-> DisplayText(session_results[1], live),
          issues |-> session_results[1].issues,
          html |-> highlight_text(DisplayText(session_results[1], live),
                                  session_results[1].issues, TRUE, TRUE, TRUE).html]
    ELSE [panel |-> "no_issues", text |-> <<>>, issues |-> <<>>, html |-> <<>>]

\* Lines 464-470: the dict stored in the session state.
Stored(issue_list, text) == <<[issues |-> issue_list, current_text |-> text]>>

\* Lines 448-477: what the handler shows and stores for the accumulated text.
ParseResults(text, submitted_text) ==
    IF Strip(text) = <<>>
    THEN [messages |-> {"no_response", "complete"}, results |-> Stored(<<>>, submitted_text)]
    ELSE IF json_loads(text).ok
    THEN [messages |-> {"complete"},
          results |-> Stored(json_loads(text).issues, submitted_text)]
    ELSE [messages |-> {"parse_error"}, results |-> <<>>]

\* The texts a user types into the text area.
AppTexts == {<<>>, <<" ">>, <<"a", "b">>, <<"b", "a">>}

\* A JSON array of the issue objects named by tokens.
RECURSIVE ListBody(_)
ListBody(tokens) ==
    IF Len(tokens) <= 1 THEN tokens
    ELSE <<Head(tokens), ",">> \o ListBody(Tail(tokens))

ListDoc(tokens) == <<"[">> \o ListBody(tokens) \o <<"]">>

\* Up to MaxDocIssues issue objects, neighbours different.
IssueLists ==
    {l \in TextsOver({<<"A">>, <<"B">>}, MaxDocIssues) :
        \A i \in 1..(Len(l) - 1) : l[i] # l[i + 1]}

\* The complete responses: a list of issues, a dict with the key, an empty dict.
Docs ==
    LET lists == {ListDoc(l) : l \in IssueLists}
    IN  lists \cup {<<"{", "\"issues\":">> \o d \o <<"}">> : d \in lists}
              \cup {<<"{", "}">>}

\* What a stream can deliver before it ends: a complete response, one cut
\* short, nothing, or whitespace.
Prefixes(d) == {SubSeq(d, 1, n) : n \in 0..Len(d)}

Responses == UNION {Prefixes(d) : d \in Docs} \cup {<<" ">>}

\* The script reaches its end: the rest of a run from line 478 on.
EndRun(session_results, shown) ==
    /\ app_pc' = "idle"
    /\ fact_check_results' = session_results
    /\ messages' = shown
    /\ display' = Display(session_results, main_text_input')

lib_vars ==
    <<pc, original_text, issues, show_misleading, show_incomplete, show_questionable,
      stripped, position_map, returned, filtered_issues, highlight_ranges, positions,
      segments, html>>

(***************************************************************************)
(* Lines 312-404: a click on "Fact Check".  A click during a run stops     *)
(* that run.  The handler clears the stored results and reads the text     *)
(* area; it ends with an error box, or starts to stream the response.      *)
(***************************************************************************)
ClickSubmit ==
    /\ UNCHANGED <<lib_vars, api_key, main_text_input, stored_click>>
    /\ current_text' = main_text_input
    /\ result_text' = <<>>
    /\ \/ /\ Strip(main_text_input) = <<>>
          /\ EndRun(<<>>, {"blank"})
          /\ response' = <<>>
       \/ /\ Strip(main_text_input) # <<>>
          /\ ~api_key
          /\ EndRun(<<>>, {"no_key"})
          /\ response' = <<>>
       \/ /\ Strip(main_text_input) # <<>>
          /\ api_key
          /\ EndRun(<<>>, {"error"})
          /\ response' = <<>>
       \/ /\ Strip(main_text_input) # <<>>
          /\ api_key
          /\ response' \in Responses
          /\ app_pc' = "streaming"
          /\ fact_check_results' = <<>>
          /\ messages' = {}
          /\ display' = NoDisplay
    /\ clicked' = [text |-> main_text_input, sent |-> response']

\* Lines 411-431: one chunk of the stream is added to result_text.
StreamChunk ==
    /\ app_pc = "streaming"
    /\ response # <<>>
    /\ result_text' = result_text \o <<Head(response)>>
    /\ response' = Tail(response)
    /\ UNCHANGED <<lib_vars, app_pc, api_key, main_text_input, fact_check_results,
                   current_text, messages, display, clicked, stored_click>>

\* Lines 411 and 474-477: the stream raises; the handler shows the error.
StreamRaise ==
    /\ app_pc = "streaming"
    /\ UNCHANGED <<lib_vars, api_key, main_text_input, current_text, response,
                   result_text, clicked, stored_click>>
    /\ EndRun(<<>>, {"error"})

\* Lines 432-477 and the display: the stream is exhausted, the accumulated
\* text is parsed, the results are stored and the page is rendered.
StreamEnd ==
    /\ app_pc = "streaming"
    /\ response = <<>>
    /\ UNCHANGED <<lib_vars, api_key, main_text_input, current_text, response,
                   result_text, clicked>>
    /\ \E parsed \in {ParseResults(result_text, current_text)} :
          /\ EndRun(parsed.results, parsed.messages)
          /\ stored_click' = IF parsed.results # <<>> THEN clicked ELSE stored_click

\* An edit of the text area: a run in progress stops, and the script runs
\* again without the button.
EditText ==
    /\ \E text \in AppTexts : main_text_input' = text
    /\ EndRun(fact_check_results, {})
    /\ UNCHANGED <<lib_vars, api_key, current_text, response, result_text, clicked,
                   stored_click>>

AppInit ==
    /\ NewSession
    /\ api_key \in BOOLEAN
    /\ pc = "start"
    /\ original_text = <<>>
    /\ issues = <<>>
    /\ AllShown
    /\ stripped = <<>>
    /\ position_map = <<>>
    /\ returned = ""
    /\ filtered_issues = <<>>
    /\ highlight_ranges = <<>>
    /\ positions = <<>>
    /\ segments = <<>>
    /\ html = <<>>

AppNext ==
    \/ ClickSubmit
    \/ StreamChunk
    \/ StreamRaise
    \/ StreamEnd
    \/ EditText

SpecApp == AppInit /\ [][AppNext]_vars

(***************************************************************************)
(* Properties.                                                             *)
(***************************************************************************)

\* C1: build_position_map(text) returns (logical, map) of equal lengths, the
\* map strictly increasing with every entry an offset of text, and
\* text[map[i]] = logical[i] for every index i of logical.
MapperRoundTrip ==
    pc = "mapped" =>
        /\ Len(stripped) = Len(position_map)
        /\ \A i \in DOMAIN position_map :
              /\ position_map[i] \in 0..(Len(original_text) - 1)
              /\ At(original_text, position_map[i]) = stripped[i]
        /\ \A i \in 1..(Len(position_map) - 1) : position_map[i] < position_map[i + 1]

\* An annotation was elided between two kept characters.
MapperRoundTripWitness ==
    /\ pc = "mapped"
    /\ \E i \in 1..(Len(position_map) - 1) : position_map[i + 1] > position_map[i] + 1

(***************************************************************************)
(* Vocabulary of the properties below, in terms of the arguments.          *)
(***************************************************************************)
Full == pc = "highlighted" /\ returned = "full"

IssueIndices == 0..(Len(issues) - 1)

Visible(idx) ==
    LET kind == At(issues, idx).type
    IN  /\ kind = "misleading" => show_misleading
        /\ kind = "incomplete" => show_incomplete
        /\ kind = "questionable" => show_questionable

\* The excerpt of issue idx without its surrounding whitespace.
Trimmed(idx) ==
    LET e == At(issues, idx).excerpt
        inner == {i \in DOMAIN e : e[i] \notin {" ", "\n"}}
    IN  IF inner = {} THEN <<>> ELSE SubSeq(e, SetMin(inner), SetMax(inner))

Occurs(hay, needle, p) ==
    /\ p >= 0
    /\ p + Len(needle) <= Len(hay)
    /\ \A i \in DOMAIN needle : hay[p + i] = needle[i]

OccursIn(hay, needle) == \E p \in 0..Len(hay) : Occurs(hay, needle, p)

FirstAt(hay, needle, p) ==
    /\ Occurs(hay, needle, p)
    /\ \A q \in 0..(p - 1) : ~Occurs(hay, needle, q)

\* The located ranges of issue idx, as <<start, end>> pairs.
SpansOf(idx) ==
    {<<highlight_ranges[k].start, highlight_ranges[k].end>> :
        k \in {j \in DOMAIN highlight_ranges : highlight_ranges[j].issue_index = idx}}

RECURSIVE ConcatTexts(_, _)
ConcatTexts(segs, i) ==
    IF i > Len(segs) THEN <<>> ELSE segs[i].text \o ConcatTexts(segs, i + 1)

\* C2: the segments are contiguous and non-overlapping, none is empty, the
\* first starts at 0 and the last ends at len(original), and the segment
\* texts concatenated in order are the original text.
PartitionComplete ==
    Full =>
        /\ \A i \in DOMAIN segments : segments[i].start < segments[i].end
        /\ \A i \in 1..(Len(segments) - 1) : segments[i].end = segments[i + 1].start
        /\ original_text # <<>> =>
              /\ segments # <<>>
              /\ segments[1].start = 0
              /\ segments[Len(segments)].end = Len(original_text)
        /\ ConcatTexts(segments, 1) = original_text

\* Two located ranges overlap partly, so a segment is covered by both.
PartitionCompleteWitness ==
    /\ Full
    /\ Len(segments) >= 3
    /\ \E i \in DOMAIN segments : Len(segments[i].issues) = 2
    /\ \E i \in DOMAIN segments : segments[i].issues = <<>>

\* C3: in every segment the covering list is in ascending issue_index
\* order, whatever the starts of the located ranges are.
CoveringSortedByIndex ==
    Full =>
        \A i \in DOMAIN segments :
            \A k, l \in DOMAIN segments[i].issues :
                k < l => segments[i].issues[k].issue_index < segments[i].issues[l].issue_index

\* C3 as amended: the covering list is in ascending order of the start of
\* the located ranges, and in ascending issue_index order among equal starts.
CoveringSortedByStart ==
    Full =>
        \A i \in DOMAIN segments :
            \A k, l \in DOMAIN segments[i].issues :
                k < l =>
                    LET x == segments[i].issues[k]
                        y == segments[i].issues[l]
                    IN  \/ x.start < y.start
                        \/ x.start = y.start /\ x.issue_index < y.issue_index

\* A later issue whose range starts earlier comes first in a covering list.
CoveringSortedByStartWitness ==
    /\ Full
    /\ \E i \in DOMAIN segments :
          /\ Len(segments[i].issues) >= 2
          /\ segments[i].issues[1].issue_index > segments[i].issues[2].issue_index
          /\ segments[i].issues[1].start < segments[i].issues[2].start

\* C4: a visible issue whose trimmed excerpt is non-empty and occurs in the
\* original text has exactly the range [p, p + len(excerpt)) with p the
\* offset of the first occurrence.
ExactMatchFirst ==
    Full =>
        \A idx \in IssueIndices :
            (Visible(idx) /\ Trimmed(idx) # <<>> /\ OccursIn(original_text, Trimmed(idx))) =>
                \E p \in 0..Len(original_text) :
                    /\ FirstAt(original_text, Trimmed(idx), p)
                    /\ SpansOf(idx) = {<<p, p + Len(Trimmed(idx))>>}

\* The excerpt occurs twice in the original text, and the first occurrence
\* of its stripped form in the logical text maps to another range.
ExactMatchFirstWitness ==
    /\ Full
    /\ \E idx \in IssueIndices :
          /\ Visible(idx)
          /\ Trimmed(idx) # <<>>
          /\ \E p, q \in 0..Len(original_text) :
                /\ p < q
                /\ Occurs(original_text, Trimmed(idx), p)
                /\ Occurs(original_text, Trimmed(idx), q)
                /\ SpansOf(idx) = {<<p, p + Len(Trimmed(idx))>>}
                /\ \E r \in 0..(p - 1) :
                      /\ FirstAt(build_position_map(original_text)[1], Trimmed(idx), r)
                      /\ At(build_position_map(original_text)[2], r) < p

\* C5: a visible issue whose trimmed excerpt does not occur in the original
\* text, and whose annotation-stripped form (length L > 0) first occurs in
\* the logical text at p, has exactly the range [map[p], map[p + L - 1] + 1);
\* for the Paris text and excerpt that is the whole text, through its
\* closing period.
FallbackRange ==
    Full =>
        \A idx \in IssueIndices :
            LET e == Trimmed(idx)
                logical == build_position_map(original_text)[1]
                map == build_position_map(original_text)[2]
                bare == build_position_map(e)[1]
            IN  /\ ( /\ Visible(idx)
                     /\ e # <<>>
                     /\ ~OccursIn(original_text, e)
                     /\ bare # <<>>
                     /\ OccursIn(logical, bare) ) =>
                        \E p \in 0..Len(logical) :
                            /\ FirstAt(logical, bare, p)
                            /\ SpansOf(idx) =
                                  {<<At(map, p), At(map, p + Len(bare) - 1) + 1>>}
                /\ (Visible(idx) /\ original_text = ParisText /\ e = ParisExcerpt) =>
                        /\ SpansOf(idx) = {<<0, Len(ParisText)>>}
                        /\ At(original_text, Len(ParisText) - 1) = "."

\* The Paris excerpt is located over the elided annotation.
FallbackRangeWitness ==
    /\ Full
    /\ original_text = ParisText
    /\ \E idx \in IssueIndices :
          /\ Trimmed(idx) = ParisExcerpt
          /\ ~OccursIn(original_text, ParisExcerpt)
          /\ SpansOf(idx) = {<<0, 45>>}

\* The excerpt of issue idx can be located by one of the two searches.
Locatable(idx) ==
    LET e == Trimmed(idx)
        logical == build_position_map(original_text)[1]
        bare == build_position_map(e)[1]
    IN  /\ e # <<>>
        /\ \/ OccursIn(original_text, e)
           \/ bare # <<>> /\ OccursIn(logical, bare)

CoveringIndices(seg) == {seg.issues[k].issue_index : k \in DOMAIN seg.issues}

\* C6: a visible issue whose excerpt is empty or whitespace, or is found
\* neither in the original nor (stripped) in the logical text, has no
\* located range, is in no covering list and adds no boundary; every other
\* visible issue has its range.
UnlocatableDropped ==
    Full =>
        /\ \A idx \in IssueIndices :
              Visible(idx) =>
                  IF Locatable(idx)
                  THEN Cardinality(SpansOf(idx)) = 1
                  ELSE /\ SpansOf(idx) = {}
                       /\ \A i \in DOMAIN segments : idx \notin CoveringIndices(segments[i])
        /\ {positions[i] : i \in DOMAIN positions} =
              {0, Len(original_text)}
              \cup UNION {{sp[1], sp[2]} :
                            sp \in UNION {SpansOf(idx) :
                                            idx \in {j \in IssueIndices :
                                                        Visible(j) /\ Locatable(j)}}}

\* One issue is dropped and another of the same call is highlighted.
UnlocatableDroppedWitness ==
    /\ Full
    /\ \E idx, other \in IssueIndices :
          /\ Visible(idx)
          /\ Trimmed(idx) # <<>>
          /\ ~Locatable(idx)
          /\ Visible(other)
          /\ \E i \in DOMAIN segments : other \in CoveringIndices(segments[i])

SegmentShape(seg) ==
    <<seg.start, seg.end, [k \in DOMAIN seg.issues |-> seg.issues[k].issue_index]>>

\* C7: ranges [0,10) of issue 0 and [5,15) of issue 1 over a text of 20
\* characters give exactly the segments [0,5) {0}, [5,10) {0,1},
\* [10,15) {1} and [15,20) {}.
OverlapMerge ==
    ( /\ Full
      /\ Len(original_text) = 20
      /\ [k \in DOMAIN highlight_ranges |->
             <<highlight_ranges[k].start, highlight_ranges[k].end,
               highlight_ranges[k].issue_index>>]
         = << <<0, 10, 0>>, <<5, 15, 1>> >> ) =>
        [i \in DOMAIN segments |-> SegmentShape(segments[i])]
        = << <<0, 5, <<0>> >>, <<5, 10, <<0, 1>> >>, <<10, 15, <<1>> >>, <<15, 20, <<>> >> >>

\* The two ranges of the example were located.
OverlapMergeWitness ==
    /\ Full
    /\ original_text = Text20
    /\ Len(highlight_ranges) = 2
    /\ SpansOf(0) = {<<0, 10>>}
    /\ SpansOf(1) = {<<5, 15>>}
    /\ Len(segments) = 4

\* C8: with an empty issue list highlight_text returns the original text,
\* character for character, with no <mark> element.
EmptyIssuesPlain ==
    (pc = "highlighted" /\ issues = <<>>) =>
        /\ Len(html) = Len(original_text)
        /\ \A i \in DOMAIN html : html[i] = [ch |-> original_text[i]]

\* A text with an annotation was returned unchanged.
EmptyIssuesPlainWitness ==
    /\ pc = "highlighted"
    /\ issues = <<>>
    /\ Len(html) > Len(build_position_map(original_text)[1])
    /\ build_position_map(original_text)[1] # <<>>

IsMark(el) == "badge_text" \in DOMAIN el

Marks == SelectSeq(html, IsMark)

Covered == SelectSeq(segments, LAMBDA seg : seg.issues # <<>>)

\* C9: hidden issues give no range, and every range carries the 0-based
\* position of its issue in the unfiltered list: the ranges under the given
\* flags are those of the call with every kind shown, less the hidden kinds.
FilterKeepsIndex ==
    /\ Full =>
          /\ \A k \in DOMAIN highlight_ranges :
                /\ highlight_ranges[k].issue_index \in IssueIndices
                /\ Visible(highlight_ranges[k].issue_index)
                /\ highlight_ranges[k].issue_type
                      = At(issues, highlight_ranges[k].issue_index).type
          /\ highlight_ranges =
                SelectSeq(highlight_text(original_text, issues, TRUE, TRUE, TRUE).highlight_ranges,
                          LAMBDA hr : Visible(hr.issue_index))
          /\ \A m \in DOMAIN Marks : \A k \in DOMAIN Marks[m].issue_ids :
                \E idx \in IssueIndices :
                    /\ Visible(idx)
                    /\ SpansOf(idx) # {}
                    /\ Marks[m].issue_ids[k] = Str(idx)
    /\ (pc = "highlighted" /\ returned = "early") =>
          /\ \A idx \in IssueIndices : ~Visible(idx)
          /\ Marks = <<>>

\* The first issue is hidden and a later one is highlighted under its own
\* number.
FilterKeepsIndexWitness ==
    /\ Full
    /\ Len(issues) = 2
    /\ ~Visible(0)
    /\ SpansOf(1) # {}
    /\ \E m \in DOMAIN Marks : Marks[m].badge_text = <<"2">> /\ Marks[m].badge_type = "single"

BackgroundOf(kind) ==
    CASE kind = "misleading" -> "#ffcccc"
      [] kind = "questionable" -> "#fff4cc"
      [] kind = "incomplete" -> "#cce5ff"

AccentOf(kind) ==
    CASE kind = "misleading" -> "#ff0000"
      [] kind = "questionable" -> "#ffa500"
      [] kind = "incomplete" -> "#0066cc"

\* C10: the <mark> of a covered segment has the background of the first
\* covering issue's kind; a transparent border when one issue covers it,
\* else the accent of the second issue's kind; as badge the first issue's
\* 1-based index ('single') when one issue covers it, else the number of
\* covering issues ('multiple').
Presentation ==
    Full =>
        /\ Len(Marks) = Len(Covered)
        /\ \A m \in DOMAIN Marks :
              LET covering == Covered[m].issues
                  n == Len(covering)
              IN  /\ Marks[m].text = Covered[m].text
                  /\ Marks[m].bg_color = BackgroundOf(covering[1].issue_type)
                  /\ Marks[m].border_style =
                        IF n = 1 THEN "transparent" ELSE AccentOf(covering[2].issue_type)
                  /\ Marks[m].badge_text =
                        IF n = 1 THEN Str(covering[1].issue_index + 1) ELSE Str(n)
                  /\ Marks[m].badge_type = IF n = 1 THEN "single" ELSE "multiple"

\* Three issues of three kinds cover one segment.
PresentationWitness ==
    /\ Full
    /\ \E m \in DOMAIN Marks :
          /\ Len(Covered[m].issues) = 3
          /\ Covered[m].issues[2].issue_type # Covered[m].issues[3].issue_type
          /\ Covered[m].issues[1].issue_type # Covered[m].issues[2].issue_type
          /\ Marks[m].badge_text = <<"3">>

\* The issue record with the defaults the claim names filled in.
WithDefaults(issue) ==
    issue @@ ("type" :> "questionable" @@ "sources" :> <<>> @@ "excerpt" :> <<>>
              @@ "issue" :> NoExplanation)

RangesOfIndex(idx) == SelectSeq(highlight_ranges, LAMBDA hr : hr.issue_index = idx)

\* C11: a call on issue records with missing fields returns what the call on
\* the same records with the defaults filled in returns (missing type as
\* 'questionable', missing sources as the empty list, missing excerpt as the
\* empty string); an issue without excerpt yields no range, an issue without
\* type is filtered and coloured as questionable, and every complete visible
\* issue whose excerpt occurs in the text still gets its range at the first
\* occurrence.
FieldsDefault ==
    pc = "highlighted" =>
        LET filled == [k \in DOMAIN issues |-> WithDefaults(issues[k])]
            ref == highlight_text(original_text, filled, show_misleading,
                                  show_incomplete, show_questionable)
        IN  /\ returned = ref.returned
            /\ html = ref.html
            /\ highlight_ranges = ref.highlight_ranges
            /\ segments = ref.segments
            /\ \A idx \in IssueIndices :
                  LET issue == At(issues, idx)
                  IN  /\ "excerpt" \notin DOMAIN issue => RangesOfIndex(idx) = <<>>
                      /\ "type" \notin DOMAIN issue =>
                            /\ ~show_questionable => RangesOfIndex(idx) = <<>>
                            /\ \A k \in DOMAIN html :
                                  IsMark(html[k]) /\ html[k].issue_ids[1] = Str(idx)
                                      => html[k].bg_color = "#fff4cc"
                            /\ \A k \in DOMAIN highlight_ranges :
                                  highlight_ranges[k].issue_index = idx
                                      => highlight_ranges[k].issue_type = "questionable"
                      /\ "sources" \notin DOMAIN issue =>
                            \A k \in DOMAIN highlight_ranges :
                                highlight_ranges[k].issue_index = idx
                                    => highlight_ranges[k].sources = <<>>
                      /\ (/\ DOMAIN issue = IssueKeys
                          /\ ~Hidden(issue.type, show_misleading, show_incomplete,
                                     show_questionable))
                            => /\ Len(RangesOfIndex(idx)) = 1
                               /\ RangesOfIndex(idx)[1].start
                                      = Find(original_text, issue.excerpt)

\* A batch whose first record has no excerpt and whose second has neither type
\* nor sources, the second shown as a questionable mark.
FieldsDefaultWitness ==
    /\ pc = "highlighted"
    /\ "excerpt" \notin DOMAIN issues[1]
    /\ DOMAIN issues[2] = {"excerpt", "issue"}
    /\ \E k \in DOMAIN html :
          /\ IsMark(html[k])
          /\ html[k].issue_ids = <<Str(1)>>
          /\ html[k].bg_color = "#fff4cc"

\* The issues whose located range holds offset p.
IssuesAt(p) ==
    {highlight_ranges[k].issue_index :
        k \in {j \in DOMAIN highlight_ranges :
                  highlight_ranges[j].start <= p /\ p < highlight_ranges[j].end}}

\* C13: a range is in a segment's covering list exactly when it contains the
\* whole segment, the issues covering any offset of the segment are those of
\* the segment's list, and two adjacent segments never have the same covering
\* set.
ConstantCovering ==
    Full =>
        /\ \A i \in DOMAIN segments :
              /\ \A k \in DOMAIN highlight_ranges :
                    (\E m \in DOMAIN segments[i].issues :
                        segments[i].issues[m] = highlight_ranges[k])
                    <=> (/\ highlight_ranges[k].start <= segments[i].start
                         /\ segments[i].end <= highlight_ranges[k].end)
              /\ \A p \in segments[i].start..(segments[i].end - 1) :
                    IssuesAt(p) = CoveringIndices(segments[i])
        /\ \A i \in 1..(Len(segments) - 1) :
              CoveringIndices(segments[i]) # CoveringIndices(segments[i + 1])

\* A segment of several characters under two issues, next to a segment under
\* another non-empty set.
ConstantCoveringWitness ==
    /\ Full
    /\ \E i \in 1..(Len(segments) - 1) :
          /\ segments[i].end - segments[i].start >= 2
          /\ Cardinality(CoveringIndices(segments[i])) = 2
          /\ CoveringIndices(segments[i + 1]) # {}

\* C14: no position of the logical text starts a match of the annotation
\* pattern, and build_position_map of the logical text returns it unchanged.
StrippingIdempotent ==
    pc = "mapped" =>
        /\ \A i \in 0..(Len(stripped) - 1) : UrlMatchLen(stripped, i) = -1
        /\ build_position_map(stripped)[1] = stripped

\* The fallback search of a visible issue idx succeeds: its trimmed excerpt is
\* not in the original text and its stripped form, not empty, is in the
\* logical text.
FallbackFound(idx) ==
    LET e == Trimmed(idx)
        bare == build_position_map(e)[1]
    IN  /\ Visible(idx)
        /\ e # <<>>
        /\ ~OccursIn(original_text, e)
        /\ bare # <<>>
        /\ OccursIn(build_position_map(original_text)[1], bare)

\* C15: every located range has 0 <= start < end <= len(original_text); when
\* the fallback search finds the stripped excerpt (length L) at p, p + L is
\* at most len(pos_map), so min(p + L, len(pos_map)) is p + L, and the two
\* offsets read from the map, p and p + L - 1, are indices of it.
RangeWithinText ==
    Full =>
        /\ \A k \in DOMAIN highlight_ranges :
              /\ 0 <= highlight_ranges[k].start
              /\ highlight_ranges[k].start < highlight_ranges[k].end
              /\ highlight_ranges[k].end <= Len(original_text)
        /\ \A idx \in IssueIndices :
              FallbackFound(idx) =>
                  LET map == build_position_map(original_text)[2]
                      bare == build_position_map(Trimmed(idx))[1]
                      p == Find(build_position_map(original_text)[1], bare)
                  IN  /\ p + Len(bare) <= Len(map)
                      /\ Min(p + Len(bare), Len(map)) = p + Len(bare)
                      /\ p \in 0..(Len(map) - 1)
                      /\ p + Len(bare) - 1 \in 0..(Len(map) - 1)
                      /\ SpansOf(idx) # {}

\* A fallback match of several characters, over an elided annotation, that
\* runs to the last entry of the map.
RangeWithinTextWitness ==
    /\ Full
    /\ \E idx \in IssueIndices :
          LET map == build_position_map(original_text)[2]
              bare == build_position_map(Trimmed(idx))[1]
              p == Find(build_position_map(original_text)[1], bare)
          IN  /\ FallbackFound(idx)
              /\ Len(bare) > 1
              /\ p + Len(bare) = Len(map)
              /\ SpansOf(idx) = {<<At(map, p), Len(original_text)>>}
              /\ Len(original_text) - At(map, p) > Len(bare)

\* The issue objects of a response, in order, as json.loads gives them.
IssuesIn(tokens) ==
    LET objects == SelectSeq(tokens, LAMBDA tok : tok \in IssueTokens)
    IN  [k \in DOMAIN objects |-> IssueOf(objects[k])]

\* C12: highlight_text is invoked (the results panel is rendered) only when no
\* stream is in progress, every chunk of the response has been consumed, the
\* accumulated text is a complete response, and the issue list passed is the
\* list stored in the session state, which is the list of that response;
\* while a stream is in progress nothing is stored and nothing is rendered.
StreamedWhole ==
    /\ app_pc = "streaming" => fact_check_results = <<>> /\ display = NoDisplay
    /\ display.panel = "results" =>
          /\ app_pc = "idle"
          /\ response = <<>>
          /\ result_text = stored_click.sent
          /\ result_text \in Docs
          /\ fact_check_results # <<>>
          /\ fact_check_results[1].issues = IssuesIn(result_text)
          /\ display.issues = fact_check_results[1].issues
          /\ display.html = highlight_text(display.text, display.issues,
                                           TRUE, TRUE, TRUE).html

\* The panel is rendered for a dict response of two issues, streamed in
\* eight chunks.
StreamedWholeWitness ==
    /\ display.panel = "results"
    /\ Len(result_text) = 8
    /\ result_text[1] = "{"
    /\ Len(display.issues) = 2
    /\ \E k \in DOMAIN display.html : IsMark(display.html[k])

\* C16: whenever the results panel or the 'No issues found' message is shown,
\* the text passed to highlight_text is the text area as it was at the click
\* of the submission that stored the results, and the issues shown are those
\* of the response to that same click, whatever the text area holds now.
PairedDisplay ==
    display.panel # "none" =>
        /\ fact_check_results # <<>>
        /\ fact_check_results[1].current_text = stored_click.text
        /\ fact_check_results[1].issues = IssuesIn(stored_click.sent)
        /\ display.panel = "results" =>
              /\ display.text = stored_click.text
              /\ display.issues = IssuesIn(stored_click.sent)
              /\ display.issues # <<>>
        /\ display.panel = "no_issues" => IssuesIn(stored_click.sent) = <<>>

\* The panel still shows the submitted text and its issues after the text
\* area was changed to another text.
PairedDisplayWitness ==
    /\ display.panel = "results"
    /\ app_pc = "idle"
    /\ Strip(main_text_input) # <<>>
    /\ main_text_input # display.text
    /\ display.text = stored_click.text
    /\ messages = {}

\* The boxes st.error shows.
ErrorMessages == {"blank", "no_key", "no_response", "parse_error", "error"}

\* C17: at the end of a run whose submission showed an error, the stored
\* results are None, nothing is rendered from the session state, and no
\* 'Fact-check complete' box is shown.
ErrorClearsResults ==
    (app_pc = "idle" /\ messages \cap ErrorMessages # {}) =>
        /\ fact_check_results = <<>>
        /\ display = NoDisplay
        /\ "complete" \notin messages

====
